---- MODULE Spec2Model ----
(***************************************************************************)
(* Calibration core of implement.py: get_roc_metrics (ROC curve, AUC and   *)
(* the Youden-optimal threshold), adjust_lambda (the smoothed lambda       *)
(* controller) and classify_text.                                          *)
(*                                                                         *)
(* Scores are probabilities k/Scale, written as the integer k.  Every      *)
(* other real number of the program (rates, lambda, AUC) is an exact       *)
(* rational [num, den]; den = 0 stands for NaN.  The arithmetic is exact:  *)
(* the rounding of IEEE doubles is not modelled.                           *)
(***************************************************************************)
EXTENDS Integers, Sequences, FiniteSets, TLC

VARIABLES human_preds, ai_preds, call, round

vars == <<human_preds, ai_preds, call, round>>

\* ---------------------------------------------------------------- bounds
\* A score is k/Scale for k in 0..Scale.
Scale == 2
\* Longest probability batch.
MaxBatch == 2
\* Longest run of chained adjust_lambda rounds in Spec.
MaxRounds == 2
\* Longest run of chained adjust_lambda rounds in SpecConv.
ConvRounds == 38
\* In SpecSep a score is k/SepScale for k in 0..SepScale.
SepScale == 20

\* ------------------------------------------------------------- rationals
RECURSIVE GCD(_, _)
GCD(a, b) == IF b = 0 THEN a ELSE GCD(b, a % b)

Abs(n) == IF n < 0 THEN -n ELSE n

LCM(a, b) == (a \div GCD(a, b)) * b

\* n/d with the common factor g taken out
Reduced(n, d, g) == [num |-> n \div g, den |-> d \div g]

Rat(n, d) == Reduced(n, d, GCD(Abs(n), d))

NaN == [num |-> 0, den |-> 0]

IsNaN(x) == x.den = 0

\* x + y, x - y and x <= y over the common denominator l
AddOver(x, y, l) == Rat(x.num * (l \div x.den) + y.num * (l \div y.den), l)

SubOver(x, y, l) == Rat(x.num * (l \div x.den) - y.num * (l \div y.den), l)

LeOver(x, y, l) == x.num * (l \div x.den) <= y.num * (l \div y.den)

RAdd(x, y) == AddOver(x, y, LCM(x.den, y.den))

RSub(x, y) == SubOver(x, y, LCM(x.den, y.den))

RLe(x, y) == LeOver(x, y, LCM(x.den, y.den))

\* x * y with the cross factors g1 of (x.num, y.den) and g2 of (y.num, x.den) taken out
MulOver(x, y, g1, g2) ==
    Rat((x.num \div g1) * (y.num \div g2), (x.den \div g2) * (y.den \div g1))

RMul(x, y) == MulOver(x, y, GCD(Abs(x.num), y.den), GCD(Abs(y.num), x.den))

RLt(x, y) == ~RLe(y, x)

RMin(x, y) == IF RLe(x, y) THEN x ELSE y

RMax(x, y) == IF RLe(y, x) THEN x ELSE y

RAbs(x) == [num |-> Abs(x.num), den |-> x.den]

Zero == [num |-> 0, den |-> 1]
One == [num |-> 1, den |-> 1]
Half == [num |-> 1, den |-> 2]
Tenth == [num |-> 1, den |-> 10]

\* ------------------------------------------------------------ thresholds
\* A threshold is a score or np.inf, the sentinel roc_curve puts first.
Finite(k) == [inf |-> FALSE, val |-> k]

Inf == [inf |-> TRUE, val |-> 0]

\* p > threshold and p < threshold for a finite p
Gt(p, threshold) == ~threshold.inf /\ p > threshold.val

Lt(p, threshold) == threshold.inf \/ p < threshold.val

\* ------------------------------------------------------------- roc_curve
Max(S) == CHOOSE m \in S : \A x \in S : x <= m

ScoresOf(s) == {s[i] : i \in DOMAIN s}

\* the elements of S, m first, then the rest in descending order
RECURSIVE DescFrom(_, _)
DescFrom(S, m) ==
    IF S = {m} THEN <<m>> ELSE <<m>> \o DescFrom(S \ {m}, Max(S \ {m}))

\* y_score[threshold_idxs]: the distinct scores in descending order
DescSeq(S) == IF S = {} THEN <<>> ELSE DescFrom(S, Max(S))

RECURSIVE Pick(_, _, _)
\* the entries of s at the indices k..Len(s) that are in keep, in order
Pick(s, keep, k) ==
    IF k > Len(s) THEN <<>>
    ELSE (IF k \in keep THEN <<s[k]>> ELSE <<>>) \o Pick(s, keep, k + 1)

\* y_true = [0] * len(human_preds) + [1] * len(ai_preds)
YTrue(human, ai) == [i \in 1..Len(human) |-> 0] \o [i \in 1..Len(ai) |-> 1]

\* y_scores = human_preds + ai_preds
YScores(human, ai) == human \o ai

\* a plausible slip: the positives scoring exactly th left out
TpsAbove(y_true, y_score, th) ==
    Cardinality({i \in DOMAIN y_score : y_true[i] = 1 /\ y_score[i] > th})

\* cumulative true positives at threshold th: positives scoring >= th
TpsAt(y_true, y_score, th) ==
    Cardinality({i \in DOMAIN y_score : y_true[i] = 1 /\ y_score[i] >= th})

\* fps = 1 + threshold_idxs - tps: samples scoring >= th that are not positive
FpsAt(y_true, y_score, th) ==
    Cardinality({i \in DOMAIN y_score : y_score[i] >= th}) - TpsAt(y_true, y_score, th)

\* np.diff(x, 2) is non-zero at the interior index k
Bend(x, k) == x[k - 1] - 2 * x[k] + x[k + 1] # 0

\* drop_intermediate: the indices roc_curve keeps, when there are more than two
Keep(fps, tps) ==
    IF Len(fps) > 2
    THEN {k \in DOMAIN fps : k = 1 \/ k = Len(fps) \/ Bend(fps, k) \/ Bend(tps, k)}
    ELSE DOMAIN fps

\* counts / last, or all NaN when last <= 0
RatesOver(counts, last) ==
    [k \in DOMAIN counts |-> IF last <= 0 THEN NaN ELSE Rat(counts[k], last)]

\* fps / fps[-1] and tps / tps[-1]
Rates(counts) == RatesOver(counts, counts[Len(counts)])

Finites(s) == [k \in DOMAIN s |-> Finite(s[k])]

\* the kept points, with the point (0, 0) at threshold np.inf put first
RocKept(th, tps, fps, keep) ==
    [fpr        |-> Rates(<<0>> \o Pick(fps, keep, 1)),
     tpr        |-> Rates(<<0>> \o Pick(tps, keep, 1)),
     thresholds |-> <<Inf>> \o Finites(Pick(th, keep, 1))]

RocCounted(th, tps, fps) == RocKept(th, tps, fps, Keep(fps, tps))

\* the counts at each of the distinct scores th
RocSwept(y_true, y_score, th) ==
    RocCounted(th,
               [k \in DOMAIN th |-> TpsAt(y_true, y_score, th[k])],
               [k \in DOMAIN th |-> FpsAt(y_true, y_score, th[k])])

\* sklearn.metrics.roc_curve(y_true, y_score, pos_label=1), y_score non-empty
RocCurve(y_true, y_score) == RocSwept(y_true, y_score, DescSeq(ScoresOf(y_score)))

RECURSIVE Trapezoid(_, _, _)
\* sum over k..Len(x)-1 of (x[k+1] - x[k]) * (y[k+1] + y[k]) / 2
Trapezoid(x, y, k) ==
    IF k >= Len(x) THEN Zero
    ELSE RAdd(RMul(RMul(RSub(x[k + 1], x[k]), RAdd(y[k + 1], y[k])), Half),
              Trapezoid(x, y, k + 1))

\* sklearn.metrics.auc(fpr, tpr)
Auc(x, y) ==
    IF \E k \in DOMAIN x : IsNaN(x[k]) \/ IsNaN(y[k]) THEN NaN ELSE Trapezoid(x, y, 1)

\* tpr - fpr, element-wise
Youden(fpr, tpr) ==
    [k \in DOMAIN tpr |->
        IF IsNaN(tpr[k]) \/ IsNaN(fpr[k]) THEN NaN ELSE RSub(tpr[k], fpr[k])]

First(S) == CHOOSE k \in S : \A i \in S : k <= i

NaNs(j) == {k \in DOMAIN j : IsNaN(j[k])}

Maxima(j) == {k \in DOMAIN j : \A i \in DOMAIN j : RLe(j[i], j[k])}

\* np.argmax: the first NaN if there is one, else the first index of the maximum
ArgMax(j) == IF NaNs(j) # {} THEN First(NaNs(j)) ELSE First(Maxima(j))

\* lines 53-59 of get_roc_metrics, given roc_curve's result
RocMetrics(roc) ==
    [outcome           |-> "ok",
     fpr               |-> roc.fpr,
     tpr               |-> roc.tpr,
     roc_auc           |-> Auc(roc.fpr, roc.tpr),
     optimal_threshold |-> roc.thresholds[ArgMax(Youden(roc.fpr, roc.tpr))]]

\* get_roc_metrics(human_preds, ai_preds); roc_curve raises on no sample at all
GetRocMetrics(human, ai) ==
    IF Len(human) + Len(ai) = 0
    THEN [outcome |-> "IndexError"]
    ELSE RocMetrics(RocCurve(YTrue(human, ai), YScores(human, ai)))

\* ---------------------------------------------------------- adjust_lambda
\* a plausible slip: >= in place of >
CountAtOrAbove(human, threshold) ==
    Cardinality({i \in DOMAIN human : ~Lt(human[i], threshold)})

\* sum([1 for p in human_preds if p > optimal_threshold])
CountAbove(human, threshold) ==
    Cardinality({i \in DOMAIN human : Gt(human[i], threshold)})

\* step_size = min(0.1, abs(false_positive_rate - target_fp_rate))
StepSize(false_positive_rate, target_fp_rate) ==
    RMin(Tenth, RAbs(RSub(false_positive_rate, target_fp_rate)))

\* a plausible slip: the clamps max(0.1, .) and min(1.0, .) left out
NewLambdaUnclamped(false_positive_rate, target_fp_rate, current_lambda, step_size) ==
    IF RLt(target_fp_rate, false_positive_rate)
    THEN RSub(current_lambda, step_size)
    ELSE RAdd(current_lambda, step_size)

\* a plausible slip: the two branches swapped
NewLambdaReversed(false_positive_rate, target_fp_rate, current_lambda, step_size) ==
    IF RLt(target_fp_rate, false_positive_rate)
    THEN RMin(One, RAdd(current_lambda, step_size))
    ELSE RMax(Tenth, RSub(current_lambda, step_size))

\* if false_positive_rate > target_fp_rate: max(0.1, current_lambda - step_size)
\* else: min(1.0, current_lambda + step_size)
NewLambda(false_positive_rate, target_fp_rate, current_lambda, step_size) ==
    IF RLt(target_fp_rate, false_positive_rate)
    THEN RMax(Tenth, RSub(current_lambda, step_size))
    ELSE RMin(One, RAdd(current_lambda, step_size))

\* smoothed_lambda = alpha * new_lambda + (1 - alpha) * current_lambda
Smoothed(alpha, new_lambda, current_lambda) ==
    RAdd(RMul(alpha, new_lambda), RMul(RSub(One, alpha), current_lambda))

\* a plausible slip: the threshold scaled by lambda before it is returned
ReturnScaled(smoothed_lambda, optimal_threshold) ==
    [smoothed_lambda   |-> smoothed_lambda,
     optimal_threshold |->
        IF optimal_threshold.inf THEN optimal_threshold
        ELSE Finite((optimal_threshold.val * smoothed_lambda.num) \div smoothed_lambda.den)]

\* return smoothed_lambda, optimal_threshold
Return(smoothed_lambda, optimal_threshold) ==
    [smoothed_lambda   |-> smoothed_lambda,
     optimal_threshold |-> optimal_threshold]

\* lines 66-77 of adjust_lambda, given false_positive_rate and the threshold;
\* false_positive_rate is kept with the result for the claims about it
AdjustFrom(false_positive_rate, optimal_threshold, target_fp_rate, current_lambda, alpha) ==
    [outcome |-> "ok", false_positive_rate |-> false_positive_rate]
        @@ Return(Smoothed(alpha,
                           NewLambda(false_positive_rate, target_fp_rate, current_lambda,
                                     StepSize(false_positive_rate, target_fp_rate)),
                           current_lambda),
                  optimal_threshold)

\* line 64 on, given get_roc_metrics' result: the division by len(human_preds)
\* raises when the human batch is empty
AdjustAfter(roc, human, target_fp_rate, current_lambda, alpha) ==
    IF roc.outcome # "ok" THEN [outcome |-> roc.outcome]
    ELSE IF Len(human) = 0 THEN [outcome |-> "ZeroDivisionError"]
    ELSE AdjustFrom(Rat(CountAbove(human, roc.optimal_threshold), Len(human)),
                    roc.optimal_threshold, target_fp_rate, current_lambda, alpha)

\* adjust_lambda(human_preds, ai_preds, target_fp_rate, current_lambda, alpha)
AdjustLambda(human, ai, target_fp_rate, current_lambda, alpha) ==
    AdjustAfter(GetRocMetrics(human, ai), human, target_fp_rate, current_lambda, alpha)

\* ---------------------------------------------------------- classify_text
\* a plausible slip: <= in place of <
ClassifyTextInclusive(prob, threshold) ==
    IF Lt(prob, threshold) \/ (~threshold.inf /\ prob = threshold.val)
    THEN "Human" ELSE "AI"

\* if prob < threshold: "Human" else: "AI"
ClassifyText(prob, threshold) == IF Lt(prob, threshold) THEN "Human" ELSE "AI"

\* ------------------------------------------------------------ input sets
\* what get_ai_probability can return for a batch of at most MaxBatch texts
Batches == UNION {[1..n -> 0..Scale] : n \in 0..MaxBatch}

\* arguments of classify_text: the scores and one value on each side of [0, 1]
Probs == -1..(Scale + 1)

\* target_fp_rate: the default 0.05 and 0.5
Targets == {Rat(1, 20), Half}

\* alpha: the default 0.3 and both ends of [0, 1]
Alphas == {Zero, Rat(3, 10), One}

\* current_lambda: the default 0.5 and both ends of [0.1, 1.0]
LambdaStarts == {Tenth, Half, One}

\* ---------------------------------------------------------------- frames
\* The caller's configuration before the first round: the keyword arguments
\* of adjust_lambda, lambda_value being the lambda the caller holds.
ConfigFrame(target_fp_rate, current_lambda, alpha) ==
    [op             |-> "config",
     outcome        |-> "ok",
     target_fp_rate |-> target_fp_rate,
     alpha          |-> alpha,
     lambda_value   |-> current_lambda]

\* lambda_value, optimal_threshold = adjust_lambda(...): the caller's lambda is
\* assigned only when the call returns.
FrameOf(r, target_fp_rate, current_lambda, alpha) ==
    IF r.outcome = "ok"
    THEN [op                  |-> "adjust_lambda",
          outcome             |-> "ok",
          target_fp_rate      |-> target_fp_rate,
          alpha               |-> alpha,
          current_lambda      |-> current_lambda,
          lambda_value        |-> r.smoothed_lambda,
          false_positive_rate |-> r.false_positive_rate,
          optimal_threshold   |-> r.optimal_threshold]
    ELSE [op             |-> "adjust_lambda",
          outcome        |-> r.outcome,
          target_fp_rate |-> target_fp_rate,
          alpha          |-> alpha,
          current_lambda |-> current_lambda,
          lambda_value   |-> current_lambda]

AdjustLambdaFrame(human, ai, target_fp_rate, current_lambda, alpha) ==
    FrameOf(AdjustLambda(human, ai, target_fp_rate, current_lambda, alpha),
            target_fp_rate, current_lambda, alpha)

GetRocMetricsFrame(human, ai) ==
    [op |-> "get_roc_metrics"] @@ GetRocMetrics(human, ai)

\* classification = classify_text(prob, threshold=optimal_threshold)
ClassifyTextFrame(prob, optimal_threshold) ==
    [op                |-> "classify_text",
     outcome           |-> "ok",
     prob              |-> prob,
     optimal_threshold |-> optimal_threshold,
     classification    |-> ClassifyText(prob, optimal_threshold)]

\* --------------------------------------------------------------- actions
Init ==
    /\ human_preds \in Batches
    /\ ai_preds \in Batches
    /\ \E t \in Targets, l \in LambdaStarts, a \in Alphas : call = ConfigFrame(t, l, a)
    /\ round = 0

\* One calibration round: adjust_lambda on the reference batches, starting
\* from the lambda the previous round left.
AdjustLambdaRound(max_rounds) ==
    /\ call.op \in {"config", "adjust_lambda"}
    /\ call.outcome = "ok"
    /\ round < max_rounds
    /\ call' = AdjustLambdaFrame(human_preds, ai_preds, call.target_fp_rate,
                                 call.lambda_value, call.alpha)
    /\ round' = round + 1
    /\ UNCHANGED <<human_preds, ai_preds>>

Update == AdjustLambdaRound(MaxRounds)

\* get_roc_metrics called on the reference batches, before the rounds
Calibrate ==
    /\ call.op = "config"
    /\ call' = GetRocMetricsFrame(human_preds, ai_preds)
    /\ UNCHANGED <<human_preds, ai_preds, round>>

\* classify_text called with the threshold a calibration has just returned
Classify ==
    /\ call.op \in {"get_roc_metrics", "adjust_lambda"}
    /\ call.outcome = "ok"
    /\ \E prob \in Probs : call' = ClassifyTextFrame(prob, call.optimal_threshold)
    /\ UNCHANGED <<human_preds, ai_preds, round>>

Next == Update \/ Calibrate \/ Classify

Spec == Init /\ [][Next]_vars

\* ------------------------------------------- perfectly separated batches
\* SpecSep: the reference batches are perfectly separated, every human score
\* below 0.1 and every ai score above 0.9, on the finer grid k/SepScale.
LowScores == {k \in 0..SepScale : 10 * k < SepScale}

HighScores == {k \in 0..SepScale : 10 * k > 9 * SepScale}

NonEmptyOver(S) == UNION {[1..n -> S] : n \in 1..MaxBatch}

SepInit ==
    /\ human_preds \in NonEmptyOver(LowScores)
    /\ ai_preds \in NonEmptyOver(HighScores)
    /\ \E t \in Targets, l \in LambdaStarts, a \in Alphas : call = ConfigFrame(t, l, a)
    /\ round = 0

SepNext == Update \/ Calibrate

SpecSep == SepInit /\ [][SepNext]_vars

\* ------------------------------------------------ the loop on a fixed set
\* SpecConv: the control loop run for ConvRounds rounds on one pair of
\* non-empty reference batches, so that the observed false-positive rate and
\* the target stay fixed.  The batches are drawn in ascending order (roc_curve
\* sorts the scores and adjust_lambda counts them: their order has no effect),
\* alpha among the dyadic values of (0, 1], which keep the denominators of
\* lambda within the integer range over that many rounds.
IsAscending(s) == \A i \in 1..(Len(s) - 1) : s[i] <= s[i + 1]

ConvBatches == {b \in Batches : Len(b) > 0 /\ IsAscending(b)}

ConvAlphas == {Half, One}

ConvStarts == {Tenth, One}

ConvInit ==
    /\ human_preds \in ConvBatches
    /\ ai_preds \in ConvBatches
    /\ \E t \in Targets, l \in ConvStarts, a \in ConvAlphas : call = ConfigFrame(t, l, a)
    /\ round = 0

ConvUpdate == AdjustLambdaRound(ConvRounds)

\* The loop's progress: whenever a further round can start, one is made.  A
\* step of SpecConv is a ConvUpdate step exactly when it is a ConvRoundMade
\* step, so that this is weak fairness of ConvUpdate, stated on the round
\* counter.
ConvRoundMade ==
    /\ call.op \in {"config", "adjust_lambda"}
    /\ call.outcome = "ok"
    /\ round < ConvRounds
    /\ round' = round + 1

SpecConv == ConvInit /\ [][ConvUpdate]_vars /\ WF_round(ConvRoundMade)

\* ------------------------------------------------------- claim vocabulary
IsUpdate == call.op = "adjust_lambda" /\ call.outcome = "ok"

IsCalibrate == call.op = "get_roc_metrics"

IsClassify == call.op = "classify_text"

BothNonEmpty == Len(human_preds) > 0 /\ Len(ai_preds) > 0

InLambdaRange(l) == RLe(Tenth, l) /\ RLe(l, One)

ThrLe(a, b) == b.inf \/ (~a.inf /\ a.val <= b.val)

Min(S) == CHOOSE m \in S : \A x \in S : m <= x

C2_LowestAmongMaximal ==
    (IsCalibrate /\ BothNonEmpty) =>
        LET roc  == RocCurve(YTrue(human_preds, ai_preds), YScores(human_preds, ai_preds))
            j    == Youden(roc.fpr, roc.tpr)
            best == {k \in DOMAIN j : \A i \in DOMAIN j : RLe(j[i], j[k])}
        IN  \E k \in best :
                /\ roc.thresholds[k] = call.optimal_threshold
                /\ \A i \in best : ThrLe(roc.thresholds[k], roc.thresholds[i])

\* ---------------------------------------------------------------- C3
\* C3: for a probability in [0, 1], classify_text returns AI exactly when the
\* probability is at least the threshold and Human otherwise (a probability
\* equal to the threshold is AI), whatever the rest of the state is.
C3_ClassifyDecision ==
    (IsClassify /\ call.prob \in 0..Scale) =>
        /\ call.classification \in {"AI", "Human"}
        /\ call.classification = "AI" <=>
              (~call.optimal_threshold.inf /\ call.prob >= call.optimal_threshold.val)

\* a probability equal to the threshold, classified AI
C3_Witness ==
    /\ IsClassify
    /\ ~call.optimal_threshold.inf
    /\ call.prob = call.optimal_threshold.val
    /\ call.classification = "AI"

\* ---------------------------------------------------------------- C4
\* C4 (as claimed): on perfectly separated batches (human scores below 0.1, ai
\* scores above 0.9) get_roc_metrics returns AUC = 1.0 and a threshold
\* strictly between 0.1 and 0.9.
C4_ThresholdBetween ==
    IsCalibrate =>
        /\ call.roc_auc = One
        /\ ~call.optimal_threshold.inf
        /\ 10 * call.optimal_threshold.val > SepScale
        /\ 10 * call.optimal_threshold.val < 9 * SepScale

\* C4 (amended): on perfectly separated batches get_roc_metrics returns
\* AUC = 1.0 and the threshold is the lowest ai score, hence above 0.9 and
\* above every human score.
C4_ThresholdIsLowestAi ==
    IsCalibrate =>
        /\ call.outcome = "ok"
        /\ call.roc_auc = One
        /\ call.optimal_threshold = Finite(Min(ScoresOf(ai_preds)))
        /\ 10 * call.optimal_threshold.val > 9 * SepScale
        /\ \A i \in DOMAIN human_preds : human_preds[i] < call.optimal_threshold.val

\* calibration of separated batches with two different ai scores
C4_Witness ==
    /\ IsCalibrate
    /\ Len(human_preds) = 2
    /\ Cardinality(ScoresOf(ai_preds)) = 2
    /\ call.optimal_threshold.val < Max(ScoresOf(ai_preds))

\* ---------------------------------------------------------------- C5
\* C5 (as claimed): when the human batch or the ai batch is empty,
\* get_roc_metrics and adjust_lambda fail (InsufficientData; here any error
\* is taken for it) and return no threshold and no lambda, and the caller's
\* lambda after the failed adjust_lambda is the one before it.
C5_EmptyBatchFails ==
    ((Len(human_preds) = 0 \/ Len(ai_preds) = 0)
        /\ call.op \in {"get_roc_metrics", "adjust_lambda"}) =>
        /\ call.outcome # "ok"
        /\ call.op = "adjust_lambda" => call.lambda_value = call.current_lambda

\* ---------------------------------------------------------------- C6
\* C6 (as claimed): when every score of both batches is the single value s,
\* get_roc_metrics reports DegenerateScores with AUC = 0.5 and threshold s.
C6_DegenerateScores ==
    (IsCalibrate /\ BothNonEmpty
        /\ Cardinality(ScoresOf(YScores(human_preds, ai_preds))) = 1) =>
        /\ call.outcome = "DegenerateScores"
        /\ call.roc_auc = Half
        /\ call.optimal_threshold = Finite(human_preds[1])

\* ---------------------------------------------------------------- C8
\* C8 (as claimed): classify_text called with a probability outside [0, 1]
\* yields InvalidInput and neither Human nor AI.
C8_InvalidInput ==
    (IsClassify /\ call.prob \notin 0..Scale) =>
        /\ call.outcome = "InvalidInput"
        /\ call.classification \notin {"AI", "Human"}

\* ---------------------------------------------------------------- C9
\* C9: the threshold adjust_lambda returns is the threshold get_roc_metrics
\* returns for the same batches; it is a function of the batches alone, the
\* same for every current_lambda, alpha and target_fp_rate.
C9_ThresholdDecoupled ==
    IsUpdate =>
        call.optimal_threshold = GetRocMetrics(human_preds, ai_preds).optimal_threshold

\* a round that moved lambda and returned a score as threshold
C9_Witness ==
    /\ IsUpdate
    /\ round = 2
    /\ call.lambda_value # call.current_lambda
    /\ call.lambda_value # One
    /\ ~call.optimal_threshold.inf
    /\ call.optimal_threshold.val > 0

\* ---------------------------------------------------------------- C10
\* C10: at the threshold get_roc_metrics chose, the false-positive rate
\* adjust_lambda computes (human scores strictly above the threshold) is at
\* most the fraction of the human batch classify_text labels AI, and the two
\* differ exactly by the human scores equal to the threshold.
C10_StrictVersusNonStrict ==
    IsUpdate =>
        LET n == Len(human_preds)
            labelled == {i \in DOMAIN human_preds :
                            ClassifyText(human_preds[i], call.optimal_threshold) = "AI"}
            equal == {i \in DOMAIN human_preds :
                         call.optimal_threshold = Finite(human_preds[i])}
        IN  /\ RLe(call.false_positive_rate, Rat(Cardinality(labelled), n))
            /\ RSub(Rat(Cardinality(labelled), n), call.false_positive_rate)
                   = Rat(Cardinality(equal), n)

\* a round in which one of two human scores equals the threshold: classify_text
\* labels it AI, adjust_lambda does not count it
C10_Witness ==
    /\ IsUpdate
    /\ Len(human_preds) = 2
    /\ \E i \in DOMAIN human_preds :
          /\ call.optimal_threshold = Finite(human_preds[i])
          /\ ClassifyText(human_preds[i], call.optimal_threshold) = "AI"
    /\ call.false_positive_rate = Zero

\* ---------------------------------------------------------------- C7
\* the distance within which lambda is required to settle
Eps == Rat(1, 50)

FpBelowTarget == RLt(call.false_positive_rate, call.target_fp_rate)

FpAboveTarget == RLt(call.target_fp_rate, call.false_positive_rate)

\* step_size as the claim states it: min(0.1, |f - t|)
ClaimedStep == RMin(Tenth, RAbs(RSub(call.false_positive_rate, call.target_fp_rate)))

\* A round with f < t does not decrease lambda and closes the gap to 1.0 by
\* alpha * min(step, gap); a round with f > t does not increase lambda and
\* closes the gap to 0.1 by alpha * min(step, gap).  With alpha > 0 and
\* step > 0 the gap therefore falls below every positive distance.
MonotoneRound ==
    IsUpdate =>
        LET before == call.current_lambda
            after  == call.lambda_value
        IN  /\ FpBelowTarget =>
                /\ RLe(before, after)
                /\ RSub(One, after) =
                      RSub(RSub(One, before),
                           RMul(call.alpha, RMin(ClaimedStep, RSub(One, before))))
            /\ FpAboveTarget =>
                /\ RLe(after, before)
                /\ RSub(after, Tenth) =
                      RSub(RSub(before, Tenth),
                           RMul(call.alpha, RMin(ClaimedStep, RSub(before, Tenth))))

Settled ==
    /\ IsUpdate
    /\ FpBelowTarget => RLe(RSub(One, call.lambda_value), Eps)
    /\ FpAboveTarget => RLe(RSub(call.lambda_value, Tenth), Eps)

====
